---- MODULE Spec2Model ----
(***************************************************************************)
(* Model of literature-review-collector: the coordinate normalizer        *)
(* (parseCoordinates), the CSV exporter (exportToCSV) and the App          *)
(* component's search / extract / export handlers.                         *)
(*                                                                         *)
(* Text is a sequence of characters, each character a one-element string.  *)
(* In CSV text a run of ordinary characters (letters, digits, "_", blanks) *)
(* that the code never inspects may be carried as one element, e.g. a      *)
(* column name.                                                            *)
(*                                                                         *)
(* A JavaScript number is the decimal m * 10^(-e), kept normalised (no     *)
(* trailing zero in the fraction), or NaN.  Within the bounds below every  *)
(* decimal literal, sum and mean is far from a double's rounding limits,   *)
(* so decimal arithmetic gives the value the double arithmetic gives.      *)
(***************************************************************************)
EXTENDS Integers, Sequences, FiniteSets, TLC

\* ------------------------------------------------------------- bounds
\* Longest raw coordinate text drawn as an input of parseCoordinates.
MaxLen == 5
\* Longest record list handed to exportToCSV in the exporter specification.
MaxRecords == 2
\* Most raw papers one search returns in the App specification.
MaxPapers == 2
\* Most exports (clicks of the export button) the App specification follows.
MaxExports == 1

\* ------------------------------------------------------------- values
\* A JavaScript value: t is its typeof ("undefined", "null" for null,
\* "number", "string", "boolean", "object").
Undefined == [t |-> "undefined", nan |-> FALSE, m |-> 0, e |-> 0, s |-> <<>>, callable |-> TRUE]
Null == [t |-> "null", nan |-> FALSE, m |-> 0, e |-> 0, s |-> <<>>, callable |-> TRUE]
NaN == [t |-> "number", nan |-> TRUE, m |-> 0, e |-> 0, s |-> <<>>, callable |-> TRUE]
Str(chars) == [t |-> "string", nan |-> FALSE, m |-> 0, e |-> 0, s |-> chars, callable |-> TRUE]
\* A boolean, array or object: s is the text its toString() returns, and
\* callable is whether its toString property can be called at all.
Obj(chars, canCall) == [t |-> "object", nan |-> FALSE, m |-> 0, e |-> 0, s |-> chars, callable |-> canCall]

RECURSIVE Pow10(_)
Pow10(k) == IF k = 0 THEN 1 ELSE 10 * Pow10(k - 1)

Abs(x) == IF x < 0 THEN -x ELSE x

\* The number m * 10^(-e) with the trailing zeros of its fraction dropped.
RECURSIVE Num(_, _)
Num(m, e) ==
  IF e > 0 /\ m % 10 = 0 THEN Num(m \div 10, e - 1)
  ELSE [t |-> "number", nan |-> FALSE, m |-> m, e |-> e, s |-> <<>>, callable |-> TRUE]

IsAbsent(v) == v.t \in {"undefined", "null"}

\* ------------------------------------------------------------- characters
Digits == {"0", "1", "2", "3", "4", "5", "6", "7", "8", "9"}
DigitChar == <<"0", "1", "2", "3", "4", "5", "6", "7", "8", "9">>
DigitVal(c) == CHOOSE d \in 0..9 : DigitChar[d + 1] = c
WhiteSpace == {" ", "\n", "\r", "\t"}

\* /[^\d.\-,]/ : the characters the cleaning regex removes are all others.
KeptChars == Digits \cup {".", "-", ","}

Includes(str, c) == \E i \in 1..Len(str) : str[i] = c
StartsWith(str, c) == Len(str) > 0 /\ str[1] = c

RECURSIVE Filter(_, _)
Filter(str, keep) ==
  IF str = <<>> THEN <<>>
  ELSE IF Head(str) \in keep THEN <<Head(str)>> \o Filter(Tail(str), keep)
  ELSE Filter(Tail(str), keep)

\* String.prototype.trim
RECURSIVE TrimLeft(_)
TrimLeft(str) ==
  IF str # <<>> /\ Head(str) \in WhiteSpace THEN TrimLeft(Tail(str)) ELSE str
RECURSIVE TrimRight(_)
TrimRight(str) ==
  IF str # <<>> /\ str[Len(str)] \in WhiteSpace
  THEN TrimRight(SubSeq(str, 1, Len(str) - 1)) ELSE str
Trim(str) == TrimRight(TrimLeft(str))

\* String.prototype.split on a one-character separator: the pieces between
\* the separators, empty pieces included ("" splits to one empty piece).
RECURSIVE SplitFrom(_, _, _, _)
SplitFrom(str, sep, i, cur) ==
  IF i > Len(str) THEN <<cur>>
  ELSE IF str[i] = sep THEN <<cur>> \o SplitFrom(str, sep, i + 1, <<>>)
  ELSE SplitFrom(str, sep, i + 1, Append(cur, str[i]))
Split(str, sep) == SplitFrom(str, sep, 1, <<>>)

\* ------------------------------------------------------------- parseFloat
\* Length of the longest run of digits of str that starts at index i.
RECURSIVE DigitRun(_, _)
DigitRun(str, i) ==
  IF i <= Len(str) /\ str[i] \in Digits THEN 1 + DigitRun(str, i + 1) ELSE 0

\* The integer written by the n digits of str from index i on.
RECURSIVE DigitsVal(_, _, _)
DigitsVal(str, i, n) ==
  IF n = 0 THEN 0
  ELSE DigitsVal(str, i, n - 1) * 10 + DigitVal(str[i + n - 1])

\* parseFloat: skips leading white space and reads the longest prefix that
\* is a decimal literal (sign, digits, optional "." and digits); what
\* follows the prefix is ignored, and NaN is returned when no prefix is a
\* literal.  (Exponents and "Infinity" need letters, which the cleaned text
\* handed to parseFloat never holds.)
ParseFloat(str) ==
  LET t == TrimLeft(str)
      neg == StartsWith(t, "-") \/ StartsWith(t, "+")
      b == IF neg THEN 2 ELSE 1
      ni == DigitRun(t, b)
      dot == b + ni <= Len(t) /\ t[b + ni] = "."
      nf == IF dot THEN DigitRun(t, b + ni + 1) ELSE 0
      mag == DigitsVal(t, b, ni) * Pow10(nf) + DigitsVal(t, b + ni + 1, nf)
  IN IF ni = 0 /\ nf = 0 THEN NaN
     ELSE Num(IF StartsWith(t, "-") THEN -mag ELSE mag, nf)

\* ------------------------------------------------------------- arithmetic
Max(a, b) == IF a > b THEN a ELSE b

\* a + b on numbers (neither NaN).
Add(a, b) ==
  LET ex == Max(a.e, b.e)
  IN Num(a.m * Pow10(ex - a.e) + b.m * Pow10(ex - b.e), ex)

RECURSIVE SumFrom(_, _)
SumFrom(nums, i) ==
  IF i > Len(nums) THEN Num(0, 0) ELSE Add(nums[i], SumFrom(nums, i + 1))

\* The remainder left after k digits of r / d.
RECURSIVE FracRem(_, _, _)
FracRem(r, d, k) ==
  IF k = 0 THEN r ELSE (FracRem(r, d, k - 1) * 10) % d

\* floor(r * 10^k / d) for 0 <= r < d, by long division.
RECURSIVE FracFloor(_, _, _)
FracFloor(r, d, k) ==
  IF k = 0 THEN 0
  ELSE LET f == FracFloor(r, d, k - 1)
           rem == FracRem(r, d, k - 1)
       IN f * 10 + (rem * 10) \div d
\* parseFloat((x / n).toFixed(6)) for a number x and a count n >= 1:
\* Number.prototype.toFixed(6) picks the integer N with N / 10^6 nearest to
\* |x / n| (the larger N on a tie) and writes the sign, N's digits and the
\* point; parseFloat reads that text back.
MeanFixed6(x, n) ==
  LET mag == Abs(x.m)
      d == n * Pow10(x.e)
      ip == mag \div d
      r == mag % d
      f == FracFloor(r, d, 6)
      up == IF 2 * FracRem(r, d, 6) >= d THEN 1 ELSE 0
      f1 == f + up
      ip1 == IF f1 = 1000000 THEN ip + 1 ELSE ip
      f2 == IF f1 = 1000000 THEN 0 ELSE f1
      fr == Num(f2, 6)
      res == Num(ip1 * Pow10(fr.e) + fr.m, fr.e)
  IN IF x.m < 0 THEN Num(-res.m, res.e) ELSE res

\* ------------------------------------------------------------- parseCoordinates
\* An outcome of a call: a returned value, or an exception that escapes.
Return(v) == [thrown |-> FALSE, val |-> v]
Throw == [thrown |-> TRUE, val |-> Undefined]

\* str.split(sep).map(v => parseFloat(v)).filter(n => !isNaN(n))
RECURSIVE ParsedFrom(_, _)
ParsedFrom(pieces, i) ==
  IF i > Len(pieces) THEN <<>>
  ELSE LET n == ParseFloat(pieces[i])
       IN (IF n.nan THEN <<>> ELSE <<n>>) \o ParsedFrom(pieces, i + 1)
\* Variant: a piece that does not parse counts as 0.
RECURSIVE ZeroFilledFrom(_, _)
ZeroFilledFrom(pieces, i) ==
  IF i > Len(pieces) THEN <<>>
  ELSE LET n == ParseFloat(pieces[i])
       IN (IF n.nan THEN <<Num(0, 0)>> ELSE <<n>>) \o ZeroFilledFrom(pieces, i + 1)
ParsedPartsZeroFilled(str, sep) == ZeroFilledFrom(Split(str, sep), 1)
ParsedParts(str, sep) == ParsedFrom(Split(str, sep), 1)

\* Lines 16-21: the comma-list branch (taken when cleanVal has a comma).
CommaBranch(cleanVal) ==
  LET parts == ParsedParts(cleanVal, ",")
  IN IF Len(parts) = 0 THEN Undefined
     ELSE MeanFixed6(SumFrom(parts, 1), Len(parts))

\* Variant: the test without the leading-hyphen exclusion.
IsRangeAnyHyphen(cleanVal) == Includes(cleanVal, "-")
\* Line 25: the test that guards the range branch.
IsRangeCandidate(cleanVal) == Includes(cleanVal, "-") /\ ~StartsWith(cleanVal, "-")

\* Lines 33-35: the fallback.
Fallback(cleanVal) ==
  LET num == ParseFloat(cleanVal)
  IN IF num.nan THEN Undefined ELSE num

\* Variant: a range whenever at least two numbers are left.
RangeOrFallbackAtLeastTwo(cleanVal) ==
  LET parts == ParsedParts(cleanVal, "-")
  IN IF IsRangeCandidate(cleanVal) /\ Len(parts) >= 2
     THEN MeanFixed6(Add(parts[1], parts[2]), 2)
     ELSE Fallback(cleanVal)
\* Lines 25-35: the range branch, falling through to the fallback when the
\* split does not leave exactly two numbers.
RangeOrFallback(cleanVal) ==
  LET parts == ParsedParts(cleanVal, "-")
  IN IF IsRangeCandidate(cleanVal) /\ Len(parts) = 2
     THEN MeanFixed6(Add(parts[1], parts[2]), 2)
     ELSE Fallback(cleanVal)

\* Line 12: value.toString().replace(/[^\d.\-,]/g, '').trim().  The call of
\* toString raises a TypeError when the value has no callable toString.
CleanVal(value) == Trim(Filter(value.s, KeptChars))

\* Variant: a number input is rounded like a mean.
parseCoordinatesRounding(value) ==
  IF IsAbsent(value) \/ value = Str(<<>>) THEN Return(Undefined)
  ELSE IF value.t = "number" /\ value.nan THEN Return(value)
  ELSE IF value.t = "number" THEN Return(MeanFixed6(value, 1))
  ELSE IF ~value.callable THEN Throw
  ELSE LET cleanVal == CleanVal(value)
       IN IF Includes(cleanVal, ",") THEN Return(CommaBranch(cleanVal))
          ELSE Return(RangeOrFallback(cleanVal))
\* Lines 8-39.  Line 12 stands before the try block, so what it raises
\* escapes; nothing inside the try block can raise on a string.
parseCoordinates(value) ==
  IF IsAbsent(value) \/ value = Str(<<>>) THEN Return(Undefined)
  ELSE IF value.t = "number" THEN Return(value)
  ELSE IF ~value.callable THEN Throw
  ELSE LET cleanVal == CleanVal(value)
       IN IF Includes(cleanVal, ",") THEN Return(CommaBranch(cleanVal))
          ELSE Return(RangeOrFallback(cleanVal))

\* ------------------------------------------------------------- String(val)
RECURSIVE NatToChars(_)
NatToChars(n) ==
  IF n < 10 THEN <<DigitChar[n + 1]>>
  ELSE NatToChars(n \div 10) \o <<DigitChar[(n % 10) + 1]>>

\* The k digits of f, with leading zeros.
RECURSIVE PadDigits(_, _)
PadDigits(f, k) ==
  IF k = 0 THEN <<>> ELSE PadDigits(f \div 10, k - 1) \o <<DigitChar[(f % 10) + 1]>>

\* Number::toString for a number written without an exponent (any number
\* of magnitude from 10^-6 to 10^21, and 0): sign, integer digits, and the
\* fraction's digits after a point when there is a fraction.
NumberToString(v) ==
  IF v.nan THEN <<"NaN">>
  ELSE LET mag == Abs(v.m)
           p == Pow10(v.e)
       IN (IF v.m < 0 THEN <<"-">> ELSE <<>>)
          \o NatToChars(mag \div p)
          \o (IF v.e > 0 THEN <<".">> \o PadDigits(mag % p, v.e) ELSE <<>>)

\* String(val) for a value that is not undefined or null.
StringOf(v) == IF v.t = "number" THEN NumberToString(v) ELSE v.s

\* Variant: the first two columns exchanged.
headersSwapped ==
  << "Authors", "Year", "Title", "Journal", "Open_Access",
     "Scale", "Continent", "Country", "Longitude", "Latitude",
     "Sampling_Year", "Sampling_Design", "Sampling_Depth", "Soil_Status", "LULC",
     "Spectrometer", "Spectral_Region", "Spectral_Range_Val", "Spectral_Library",
     "Spectral_Preprocessing", "Transfer_Learning",
     "Target_Property", "No_Samples_Cal", "No_Samples_Val", "Split_Method",
     "Variable_Selection", "Calibration_Model", "Auxiliary_Predictors",
     "Validation_Type", "R2", "RMSE", "RPIQ", "r" >>
\* ------------------------------------------------------------- exportToCSV
\* Lines 48-57: the column names, in the declared order.
headers ==
  << "Year", "Authors", "Title", "Journal", "Open_Access",
     "Scale", "Continent", "Country", "Longitude", "Latitude",
     "Sampling_Year", "Sampling_Design", "Sampling_Depth", "Soil_Status", "LULC",
     "Spectrometer", "Spectral_Region", "Spectral_Range_Val", "Spectral_Library",
     "Spectral_Preprocessing", "Transfer_Learning",
     "Target_Property", "No_Samples_Cal", "No_Samples_Val", "Split_Method",
     "Variable_Selection", "Calibration_Model", "Auxiliary_Predictors",
     "Validation_Type", "R2", "RMSE", "RPIQ", "r" >>

\* A record is a function from the names of its own properties to values.
\* row[fieldName]: undefined for a property the record does not have.
Get(row, fieldName) ==
  IF fieldName \in DOMAIN row THEN row[fieldName] ELSE Undefined

\* stringVal.replace(/"/g, '""')
RECURSIVE DoubleQuotes(_)
DoubleQuotes(str) ==
  IF str = <<>> THEN <<>>
  ELSE (IF Head(str) = "\"" THEN <<"\"", "\"">> ELSE <<Head(str)>>)
       \o DoubleQuotes(Tail(str))

\* Variant: only a comma makes a cell quoted.
CellCommaOnly(val) ==
  IF IsAbsent(val) THEN <<>>
  ELSE LET stringVal == StringOf(val)
       IN IF Includes(stringVal, ",")
          THEN <<"\"">> \o DoubleQuotes(stringVal) \o <<"\"">>
          ELSE stringVal
\* Lines 63-70: the text emitted for one field value.
Cell(val) ==
  IF IsAbsent(val) THEN <<>>
  ELSE LET stringVal == StringOf(val)
       IN IF Includes(stringVal, ",") \/ Includes(stringVal, "\"")
          THEN <<"\"">> \o DoubleQuotes(stringVal) \o <<"\"">>
          ELSE stringVal

\* Array.prototype.join on an array of texts.
RECURSIVE Join(_, _)
Join(texts, sep) ==
  IF texts = <<>> THEN <<>>
  ELSE IF Len(texts) = 1 THEN texts[1]
  ELSE texts[1] \o <<sep>> \o Join(Tail(texts), sep)

\* Lines 61-71: headers.map(fieldName => ...) for one row, before the join.
RowCells(row) == [j \in 1..Len(headers) |-> Cell(Get(row, headers[j]))]
\* data.map(row => headers.map(...)), before the joins.
CellRows(data) == [i \in 1..Len(data) |-> RowCells(data[i])]

\* Lines 59-72: csvContent.
CsvContent(data) ==
  Join(<<Join([j \in 1..Len(headers) |-> <<headers[j]>>], ",")>>
       \o [i \in 1..Len(data) |-> Join(RowCells(data[i]), ",")], "\n")

\* The data argument: an array of records, or undefined / null (present is
\* FALSE) when the caller passes none.
ArrayArg(rows) == [present |-> TRUE, rows |-> rows]
Missing == [present |-> FALSE, rows |-> <<>>]

\* Variant: only a missing list counts as empty.
IsEmptyDataMissingOnly(data) == ~data.present
\* Line 45: !data || data.length === 0
IsEmptyData(data) == ~data.present \/ Len(data.rows) = 0

\* ------------------------------------------------------------- state
VARIABLES
  \* App component (useState hooks and the environment)
  status,      \* ProcessingStatus
  statusLog,   \* the setStatus calls of the current run, in order
  papers,      \* ProcessedPaper[]
  logs,        \* the kinds of the log lines, oldest first
  activeTab,   \* "console" | "table"
  apiKey,      \* whether process.env.API_KEY is set
  \* the running handleSearchAndProcess call
  pc,          \* "idle" | "search" (awaiting simulateSearch) | "extract"
  rawPapers,   \* what simulateSearch returned
  idx,         \* index in rawPapers of the paper being extracted
  extracted,   \* what extractMetadataFromText returned in this run, in order
  exportedOf,  \* history: the extraction results of the records last exported
  \* the browser document, as exportToCSV changes it
  nClicks,     \* link.click() calls so far (one Blob and one URL each)
  lastDownload, \* the href content and download name of the last click
  cells,       \* the last call's cell texts, row by row, before the joins
  body,        \* the link elements attached to document.body
  \* one call of parseCoordinates, and a second call on its result
  cIn, cOut, cOut2, cpc,
  \* one call of exportToCSV on a drawn record list
  xData, xpc

vars == <<status, statusLog, papers, logs, activeTab, apiKey, pc, rawPapers, idx, extracted, exportedOf,
          nClicks, lastDownload, cells, body, cIn, cOut, cOut2, cpc, xData, xpc>>
appVars == <<status, statusLog, papers, logs, activeTab, apiKey, pc, rawPapers, idx, extracted, exportedOf>>
domVars == <<nClicks, lastDownload, cells, body>>
coordVars == <<cIn, cOut, cOut2, cpc>>
csvVars == <<xData, xpc>>

NoDownload == [href |-> <<>>, download |-> ""]
NoCall == [thrown |-> FALSE, val |-> Str(<<"not called">>)]

AppIdle ==
  /\ status = "IDLE" /\ statusLog = <<>> /\ papers = <<>> /\ logs = <<>> /\ activeTab = "console"
  /\ pc = "idle" /\ rawPapers = <<>> /\ idx = 0 /\ extracted = <<>>
  /\ exportedOf = <<>>
DomFresh ==
  /\ nClicks = 0 /\ lastDownload = NoDownload /\ cells = <<>> /\ body = <<>>
CoordOff ==
  /\ cIn = Undefined /\ cOut = NoCall /\ cOut2 = NoCall /\ cpc = "off"
CsvOff ==
  /\ xData = Missing /\ xpc = "off"

\* Lines 74-82: the Blob, its URL and the hidden link, which is attached to
\* the body, clicked and removed again.
Download(csvContent, filename) ==
  /\ nClicks' = nClicks + 1
  /\ lastDownload' = [href |-> csvContent, download |-> filename]
  /\ body' = SubSeq(Append(body, "a"), 1, Len(body))

\* Lines 44-83: exportToCSV(data, filename).
exportToCSV(data, filename) ==
  IF IsEmptyData(data)
  THEN UNCHANGED domVars
  ELSE /\ cells' = CellRows(data.rows)
       /\ Download(CsvContent(data.rows), filename)

\* ------------------------------------------------------------- SpecCoord
\* One call of parseCoordinates on a drawn input, then a second call on
\* what the first returned.
\* "N" stands for any character the cleaning regex removes.
CoordAlphabet == {"0", "1", "2", ".", "-", ",", "N"}
Texts(n) == UNION {[1..k -> CoordAlphabet] : k \in 0..n}
CoordInputs ==
  {Undefined, Null, NaN, Num(42, 0), Num(-105, 1), Num(12345678, 7)}
  \cup {Str(txt) : txt \in Texts(MaxLen)}
  \cup {Str(<<"a", "b", "c">>), Str(<<"N", "/", "A">>), Str(<<"1", "0", "deg", "N">>),
        Str(<<"1", ".", "1", "2", "3", "4", "5", "6", "7">>),
        Str(<<"1", ".", "1", "2", "3", "4", "5", "6", "7", ",", "N">>)}
  \cup {Obj(<<"t", "r", "u", "e">>, TRUE), Obj(<<"1", ",", "2">>, TRUE), Obj(<<>>, FALSE)}

InitCoord ==
  /\ cIn \in CoordInputs /\ cOut = NoCall /\ cOut2 = NoCall /\ cpc = "input"
  /\ AppIdle /\ apiKey = TRUE /\ DomFresh /\ CsvOff

Normalize ==
  /\ cpc = "input"
  /\ cOut' = parseCoordinates(cIn)
  /\ cpc' = "called"
  /\ UNCHANGED <<cIn, cOut2, appVars, domVars, csvVars>>

\* parseCoordinates(parseCoordinates(x)): the inner call's exception, if
\* any, is the whole expression's.
NormalizeAgain ==
  /\ cpc = "called"
  /\ cOut2' = IF cOut.thrown THEN Throw ELSE parseCoordinates(cOut.val)
  /\ cpc' = "again"
  /\ UNCHANGED <<cIn, cOut, appVars, domVars, csvVars>>

NextCoord == Normalize \/ NormalizeAgain
SpecCoord == InitCoord /\ [][NextCoord]_vars

\* ------------------------------------------------------------- SpecCsv
\* One call of exportToCSV on a drawn record list.
EmptyRecord == [f \in {} |-> Undefined]
ProbeFields == {"Year", "Title", "r", "id"}
ProbeValues ==
  { Null, Str(<<>>), Str(<<"Smith", ",", " J.">>),
    Str(<<"A ", "\"", "Test", "\"", " Study">>), Str(<<"soil", "\n", "carbon">>),
    Num(-105, 1) }
ProbeRecords ==
  {EmptyRecord} \cup {[f \in {fd} |-> v] : fd \in ProbeFields, v \in ProbeValues}
RecordLists(n) == UNION {[1..k -> ProbeRecords] : k \in 0..n}
FileName == "soil_carbon_spectroscopy_2025.csv"

InitCsv ==
  /\ xData \in {Missing} \cup {ArrayArg(rows) : rows \in RecordLists(MaxRecords)}
  /\ xpc = "input"
  /\ AppIdle /\ apiKey = TRUE /\ DomFresh /\ CoordOff

Export ==
  /\ xpc = "input"
  /\ exportToCSV(xData, FileName)
  /\ xpc' = "exported"
  /\ UNCHANGED <<xData, appVars, coordVars>>

NextCsv == Export
SpecCsv == InitCsv /\ [][NextCsv]_vars

\* ------------------------------------------------------------- Spec (App)
\* b's properties over a's: the object spread { ...a, ...b }.
Spread(a, b) ==
  [f \in (DOMAIN a) \cup (DOMAIN b) |-> IF f \in DOMAIN b THEN b[f] ELSE a[f]]

\* geminiService.ts lines 86-90: the raw papers of a search that found n
\* texts.
RawPaperAt(index) ==
  [id |-> Str(<<"sim-", "now", "-">> \o NatToChars(index)),
   text |-> Str(<<"abstract ">> \o NatToChars(index))]
RawPapers(n) == [k \in 1..n |-> RawPaperAt(k - 1)]

\* What extractMetadataFromText may return: the empty object when the call
\* failed (lines 125-128), or what JSON.parse made of the response text
\* (line 124), which is not validated: an object of the extraction schema,
\* whose Longitude and Latitude are raw texts, or one with a value of
\* another type, such as an object whose toString cannot be called.
ExtractOutputs ==
  { EmptyRecord,
    [f \in {"Title", "Year", "Longitude", "Latitude"} |->
       CASE f = "Title" -> Str(<<"Soil carbon by VNIR">>)
         [] f = "Year" -> Num(2025, 0)
         [] f = "Longitude" -> Str(<<"N", "/", "A">>)
         [] f = "Latitude" -> Str(<<"1", "0", ".", "5", "-", "1", "2", ".", "5">>)],
    [f \in {"Title", "Authors", "Longitude", "Latitude"} |->
       CASE f = "Title" -> Str(<<"MIR models">>)
         [] f = "Authors" -> Str(<<"Smith", ",", " J.">>)
         [] f = "Longitude" -> Str(<<"-", "1", "0", ".", "5">>)
         [] f = "Latitude" -> Str(<<"a", "b", "c">>)],
    [f \in {"Title", "Longitude", "Latitude"} |->
       CASE f = "Title" -> Str(<<"A ", "\"", "Test", "\"", " Study">>)
         [] f = "Longitude" -> Num(1165, 1)
         [] f = "Latitude" -> Null],
    [f \in {"Title", "Longitude", "Latitude"} |->
       CASE f = "Title" -> Str(<<"Off schema">>)
         [] f = "Longitude" -> Obj(<<>>, FALSE)
         [] f = "Latitude" -> Str(<<"a", "b", "c">>)] }

\* Variant: the raw text is kept when no number is derived.
CleanDataKeepRaw(extractedData, lon, lat) ==
  Spread(extractedData,
         [f \in {"Longitude", "Latitude"} |->
            LET got == IF f = "Longitude" THEN lon ELSE lat
            IN IF got = Undefined THEN Get(extractedData, f) ELSE got])
\* Lines 57-61: cleanData, with the coordinates as parseCoordinates gave
\* them.
CleanData(extractedData, lon, lat) ==
  Spread(extractedData,
         [f \in {"Longitude", "Latitude"} |-> IF f = "Longitude" THEN lon ELSE lat])

\* Lines 63-67: finalPaper.
FinalPaper(paper, cleanData) ==
  Spread([f \in {"id", "rawText"} |-> IF f = "id" THEN paper.id ELSE paper.text],
         cleanData)

Init ==
  /\ AppIdle /\ apiKey \in BOOLEAN
  /\ DomFresh /\ CoordOff /\ CsvOff

\* The "Run Automation" button is disabled while a run is in progress.
RunEnabled == status \notin {"SEARCHING", "EXTRACTING"}

\* Lines 29-32: without an API key the handler alerts and returns.
HandleSearchNoKey ==
  /\ RunEnabled /\ ~apiKey
  /\ UNCHANGED vars

\* Lines 34-42: up to the await of simulateSearch.
HandleSearchAndProcess ==
  /\ RunEnabled /\ apiKey /\ pc = "idle"
  /\ status' = "SEARCHING" /\ statusLog' = <<"SEARCHING">>
  /\ papers' = <<>>
  /\ logs' = <<"init", "query">>
  /\ pc' = "search"
  /\ rawPapers' = <<>> /\ idx' = 0 /\ extracted' = <<>>
  /\ UNCHANGED <<activeTab, apiKey, exportedOf, domVars, coordVars, csvVars>>

\* Lines 42-54 and 74-75: simulateSearch resolves with n raw papers; the
\* handler runs on to the first extraction call, or to the end when there
\* is no paper.
SearchReturns ==
  /\ pc = "search"
  /\ \E n \in 0..MaxPapers :
       /\ rawPapers' = RawPapers(n)
       /\ activeTab' = "table"
       /\ IF n = 0
          THEN /\ status' = "COMPLETED"
               /\ statusLog' = statusLog \o <<"EXTRACTING", "COMPLETED">>
               /\ logs' = logs \o <<"found", "completed">>
               /\ pc' = "idle" /\ idx' = 0
          ELSE /\ status' = "EXTRACTING"
               /\ statusLog' = Append(statusLog, "EXTRACTING")
               /\ logs' = logs \o <<"found", "processing">>
               /\ pc' = "extract" /\ idx' = 1
  /\ UNCHANGED <<papers, apiKey, extracted, exportedOf, domVars, coordVars, csvVars>>

\* Lines 77-81 (geminiService.ts lines 92-95): simulateSearch rejects.
SearchFails ==
  /\ pc = "search"
  /\ status' = "ERROR" /\ statusLog' = Append(statusLog, "ERROR")
  /\ logs' = Append(logs, "error")
  /\ pc' = "idle"
  /\ UNCHANGED <<papers, activeTab, apiKey, rawPapers, idx, extracted, exportedOf,
                 domVars, coordVars, csvVars>>

\* Lines 54-75: extractMetadataFromText resolves for paper idx; the record
\* is cleaned and appended, and the handler runs on to the next extraction
\* call or to the end.  An exception of parseCoordinates goes to the catch
\* of lines 77-81.
ExtractReturns ==
  /\ pc = "extract"
  /\ \E extractedData \in ExtractOutputs :
       LET paper == rawPapers[idx]
           lon == parseCoordinates(Get(extractedData, "Longitude"))
           lat == parseCoordinates(Get(extractedData, "Latitude"))
           finalPaper == FinalPaper(paper, CleanData(extractedData, lon.val, lat.val))
       IN /\ extracted' = Append(extracted, extractedData)
          /\ IF lon.thrown \/ lat.thrown
             THEN /\ status' = "ERROR" /\ statusLog' = Append(statusLog, "ERROR")
                  /\ logs' = Append(logs, "error")
                  /\ pc' = "idle"
                  /\ UNCHANGED <<papers, idx>>
             ELSE /\ papers' = Append(papers, finalPaper)
                  /\ IF idx < Len(rawPapers)
                     THEN /\ logs' = logs \o <<"parsed", "processing">>
                          /\ idx' = idx + 1
                          /\ UNCHANGED <<status, statusLog, pc>>
                     ELSE /\ logs' = logs \o <<"parsed", "completed">>
                          /\ status' = "COMPLETED"
                          /\ statusLog' = Append(statusLog, "COMPLETED")
                          /\ pc' = "idle"
                          /\ UNCHANGED idx
  /\ UNCHANGED <<activeTab, apiKey, rawPapers, exportedOf, domVars, coordVars, csvVars>>

\* Lines 84-87: handleExport; the export button is disabled while there is
\* no record.
HandleExport ==
  /\ Len(papers) > 0
  /\ nClicks < MaxExports
  /\ exportToCSV(ArrayArg(papers), FileName)
  /\ logs' = Append(logs, "exported")
  /\ exportedOf' = SubSeq(extracted, 1, Len(papers))
  /\ UNCHANGED <<status, statusLog, papers, activeTab, apiKey, pc, rawPapers, idx, extracted,
                 coordVars, csvVars>>

Next ==
  \/ HandleSearchNoKey
  \/ HandleSearchAndProcess
  \/ SearchReturns
  \/ SearchFails
  \/ ExtractReturns
  \/ HandleExport
Spec == Init /\ [][Next]_vars

\* ------------------------------------------------------------- CSV reader
\* An RFC 4180 reader: records end at a line break outside quotes, fields
\* at a comma outside quotes; a field that opens with a double quote runs
\* to its closing quote, a doubled quote inside it standing for one quote.
\* The reader's state: mode is "start" (at a field's start), "plain",
\* "quoted", or "closed" (just after a quote met inside a quoted field);
\* cell and row are the field and record being read, rows the records read.
ReaderStart == [mode |-> "start", cell |-> <<>>, row |-> <<>>, rows |-> <<>>]
ReadChar(st, c) ==
  IF st.mode = "quoted"
  THEN IF c = "\"" THEN [st EXCEPT !.mode = "closed"]
       ELSE [st EXCEPT !.cell = Append(@, c)]
  ELSE IF c = "\"" /\ st.mode = "closed"
  THEN [st EXCEPT !.mode = "quoted", !.cell = Append(@, c)]
  ELSE IF c = "\"" /\ st.mode = "start"
  THEN [st EXCEPT !.mode = "quoted"]
  ELSE IF c = ","
  THEN [st EXCEPT !.mode = "start", !.cell = <<>>, !.row = Append(@, st.cell)]
  ELSE IF c = "\n"
  THEN [mode |-> "start", cell |-> <<>>, row |-> <<>>,
        rows |-> Append(st.rows, Append(st.row, st.cell))]
  ELSE [st EXCEPT !.mode = "plain", !.cell = Append(@, c)]

\* The reader's state after the characters lo..hi of text, from state st.
\* (The test on left.mode only makes the left half be read first: a mode is
\* never empty.)
RECURSIVE ReadRange(_, _, _, _)
ReadRange(text, lo, hi, st) ==
  IF lo > hi THEN st
  ELSE IF lo = hi THEN ReadChar(st, text[lo])
  ELSE LET mid == (lo + hi) \div 2
           left == ReadRange(text, lo, mid, st)
       IN IF left.mode = "" THEN left ELSE ReadRange(text, mid + 1, hi, left)

\* The records of a CSV text; the last one ends where the text ends.
ReadCsv(text) ==
  LET st == ReadRange(text, 1, Len(text), ReaderStart)
  IN Append(st.rows, Append(st.row, st.cell))

\* The string form of a field value as a reader should give it back.
StringForm(val) == IF IsAbsent(val) THEN <<>> ELSE StringOf(val)

\* ------------------------------------------------------------- parseCoordinates: properties
Called == cpc \in {"called", "again"}
\* The cleaned text of a text input.
Clean == CleanVal(cIn)
TextIn(chars) == Called /\ cIn = Str(chars)

\* The pieces of str between the separators that parseFloat reads as a
\* number, as numbers.
NumericPieces(str, sep) ==
  LET pieces == Split(str, sep)
      ok == SelectSeq(pieces, LAMBDA piece : ~ParseFloat(piece).nan)
  IN [k \in 1..Len(ok) |-> ParseFloat(ok[k])]

\* res is a multiple of 10^-6 nearest to sum / n: it differs from sum / n
\* by at most half of 10^-6.
NearestMicro(res, sum, n) ==
  /\ res.t = "number" /\ ~res.nan /\ res.e <= 6
  /\ LET ex == Max(res.e, sum.e)
         diff == res.m * Pow10(ex - res.e) * n - sum.m * Pow10(ex - sum.e)
     IN IF ex >= 6 THEN 2 * Abs(diff) <= n * Pow10(ex - 6)
        ELSE diff = 0 \/ (Abs(diff) < n /\ 2 * Abs(diff) * Pow10(6 - ex) <= n)

\* C2 (as claimed): parseCoordinates never raises; every call returns a
\* number or absent.
C2_NeverRaises ==
  Called => ~cOut.thrown /\ cOut.val.t \in {"number", "undefined"}

\* C7: parseCoordinates is idempotent: a second call on the first call's
\* result gives the same; an absent input (undefined, null, "") gives
\* absent; a number is returned unchanged, with no rounding.
C7_Idempotent ==
  /\ cpc = "again" => cOut2 = cOut
  /\ Called /\ (IsAbsent(cIn) \/ cIn = Str(<<>>)) => cOut = Return(Undefined)
  /\ Called /\ cIn.t = "number" => cOut = Return(cIn)
C7_Witness ==
  cpc = "again" /\ cIn.t = "string" /\ cOut.val.t = "number" /\ cOut.val.e = 6

\* C8 (as claimed): a text with no comma that does not start with a hyphen
\* and has more than one interior hyphen yields absent.
InteriorHyphens(str) == Cardinality({i \in 2..(Len(str) - 1) : str[i] = "-"})
C8_MultiHyphenAbsent ==
  Called /\ cIn.t = "string" /\ ~Includes(Clean, ",") /\ ~StartsWith(Clean, "-")
         /\ InteriorHyphens(Clean) > 1
    => cOut = Return(Undefined)

\* C8 (amended): a text with no comma that does not start with a hyphen and
\* whose split on hyphens leaves more than two numbers is not averaged; the
\* whole-text parseFloat reads the number before the first hyphen, and the
\* result is absent only when no number stands there ("1-2-2" gives 1).
C8_MultiHyphenLeadingNumber ==
  /\ Called /\ cIn.t = "string" /\ ~Includes(Clean, ",") /\ ~StartsWith(Clean, "-")
            /\ Len(NumericPieces(Clean, "-")) > 2
       => LET first == ParseFloat(Split(Clean, "-")[1])
          IN cOut = Return(IF first.nan THEN Undefined ELSE first)
  /\ TextIn(<<"1", "-", "2", "-", "2">>) => cOut = Return(Num(1, 0))
C8_Witness ==
  /\ Called /\ cIn.t = "string" /\ ~Includes(Clean, ",") /\ ~StartsWith(Clean, "-")
  /\ Len(NumericPieces(Clean, "-")) = 3 /\ InteriorHyphens(Clean) = 2
  /\ cOut = Return(Num(2, 0))

\* C9: when the cleaned text has a comma, the result is the mean, rounded to
\* 6 decimal places, of the comma-separated segments that parse as numbers
\* (the others are discarded, not counted as zero), and absent when none
\* parses; a hyphen inside a segment makes no range.
C9_CommaListMean ==
  /\ Called /\ cIn.t = "string" /\ Includes(Clean, ",")
       => LET parts == NumericPieces(Clean, ",")
          IN /\ ~cOut.thrown
             /\ IF Len(parts) = 0 THEN cOut.val = Undefined
                ELSE NearestMicro(cOut.val, SumFrom(parts, 1), Len(parts))
  /\ TextIn(<<"1", ",", "N", "2">>) => cOut = Return(Num(15, 1))
  /\ TextIn(<<"1", ",", "N">>) => cOut = Return(Num(1, 0))
  /\ TextIn(<<"1", ",", "2", ",", "2">>) => cOut = Return(Num(1666667, 6))
  /\ TextIn(<<"1", "-", "2", ",", "2">>) => cOut = Return(Num(15, 1))
  /\ TextIn(<<"N", ",", "-">>) => cOut = Return(Undefined)
C9_Witness ==
  /\ Called /\ cIn.t = "string" /\ Includes(Clean, ",")
  /\ Len(NumericPieces(Clean, ",")) = 2 /\ Len(Split(Clean, ",")) = 3
  /\ cOut.val = Num(15, 1)

\* C10: for a cleaned text with no comma: with one hyphen, not at the start,
\* and a number on each side, the result is the mean of the two rounded to 6
\* decimal places; a text that starts with a hyphen is never averaged and
\* is read as one signed number.
C10_HyphenRange ==
  /\ Called /\ cIn.t = "string" /\ ~Includes(Clean, ",") /\ ~StartsWith(Clean, "-")
            /\ Len(Split(Clean, "-")) = 2 /\ Len(NumericPieces(Clean, "-")) = 2
       => LET sides == NumericPieces(Clean, "-")
          IN ~cOut.thrown /\ NearestMicro(cOut.val, Add(sides[1], sides[2]), 2)
  /\ Called /\ cIn.t = "string" /\ ~Includes(Clean, ",") /\ StartsWith(Clean, "-")
       => LET rest == Tail(Clean)
              mag == ParseFloat(rest)
          IN cOut = Return(IF StartsWith(rest, "-") \/ mag.nan THEN Undefined
                           ELSE Num(-mag.m, mag.e))
  /\ TextIn(<<"1", ".", "2", "-", "2">>) => cOut = Return(Num(16, 1))
  /\ TextIn(<<"-", "1", ".", "2">>) => cOut = Return(Num(-12, 1))
C10_Witness ==
  /\ Called /\ cIn.t = "string" /\ ~Includes(Clean, ",") /\ StartsWith(Clean, "-")
  /\ Len(NumericPieces(Clean, "-")) = 2 /\ cOut.val = Num(-1, 0)

\* A character of the text is a digit.
HasDigit(chars) == \E k \in 1..Len(chars) : chars[k] \in Digits

\* C11 (as claimed): for every text input the result is absent or a number
\* with at most 6 decimal places, whichever branch produced it (comma list,
\* hyphen range or single-value fallback); a text that holds no digit, so
\* that no numeric value can be derived from it, gives absent.
C11_TextResultSixDecimals ==
  (Called /\ cIn.t = "string") =>
    /\ ~cOut.thrown
    /\ \/ cOut.val = Undefined
       \/ cOut.val.t = "number" /\ ~cOut.val.nan /\ cOut.val.e <= 6
    /\ ~HasDigit(cIn.s) => cOut.val = Undefined

\* ------------------------------------------------------------- exportToCSV: properties
Exported == xpc = "exported"
\* The call wrote a file: the list was there and not empty.
Wrote == Exported /\ xData.present /\ xData.rows # <<>>
Rows == xData.rows
Csv == lastDownload.href

\* The 33 column names of the schema, in the order the specification gives.
SchemaColumns ==
  << "Year", "Authors", "Title", "Journal", "Open_Access",
     "Scale", "Continent", "Country", "Longitude", "Latitude",
     "Sampling_Year", "Sampling_Design", "Sampling_Depth", "Soil_Status", "LULC",
     "Spectrometer", "Spectral_Region", "Spectral_Range_Val", "Spectral_Library",
     "Spectral_Preprocessing", "Transfer_Learning",
     "Target_Property", "No_Samples_Cal", "No_Samples_Val", "Split_Method",
     "Variable_Selection", "Calibration_Model", "Auxiliary_Predictors",
     "Validation_Type", "R2", "RMSE", "RPIQ", "r" >>
NCols == Len(SchemaColumns)

\* What a reader should give back: the header row, then for each record the
\* string forms of its schema fields.
ExpectedRows(data) ==
  <<[j \in 1..NCols |-> <<SchemaColumns[j]>>]>>
  \o [i \in 1..Len(data) |->
        [j \in 1..NCols |-> StringForm(Get(data[i], SchemaColumns[j]))]]

HasLineBreak(data) ==
  \E i \in 1..Len(data) : \E f \in DOMAIN data[i] :
     ~IsAbsent(data[i][f]) /\ Includes(StringOf(data[i][f]), "\n")

\* The text before the first line break.
FirstLine(text) ==
  LET breaks == {i \in 1..Len(text) : text[i] = "\n"}
  IN IF breaks = {} THEN text
     ELSE SubSeq(text, 1, (CHOOSE i \in breaks : \A k \in breaks : i <= k) - 1)

\* C1 (as claimed): an RFC 4180 reader gives back, from the CSV of any
\* non-empty record list, the header row and one row per record, each cell
\* the string form of the field's value, line breaks in values included.
C1_RoundTrip ==
  Wrote => ReadCsv(Csv) = ExpectedRows(Rows)

\* C4: exportToCSV on an empty or missing list does nothing: no CSV text,
\* no Blob, link or click, the document unchanged; no file that holds only
\* the header line is ever written.
C4_EmptyIsNoOp ==
  /\ Exported /\ (~xData.present \/ Len(xData.rows) = 0)
       => nClicks = 0 /\ lastDownload = NoDownload /\ cells = <<>> /\ body = <<>>
  /\ nClicks > 0 => Len(ReadCsv(Csv)) > 1
C4_Witness ==
  Exported /\ xData = ArrayArg(<<>>) /\ nClicks = 0

\* C5: the first line of the CSV is the 33 column names in declared order,
\* whatever fields the records have; each record line lists its cells in
\* that order, an absent field as the empty text, so that fields outside
\* the schema (id, rawText) do not appear.
C5_HeaderAndOrder ==
  Wrote =>
    /\ FirstLine(Csv) = Join([j \in 1..NCols |-> <<SchemaColumns[j]>>], ",")
    /\ Len(cells) = Len(Rows)
    /\ \A i \in 1..Len(Rows) :
         /\ Len(cells[i]) = NCols
         /\ \A j \in 1..NCols :
              IsAbsent(Get(Rows[i], SchemaColumns[j])) => cells[i][j] = <<>>
    /\ Csv = Join(<<FirstLine(Csv)>> \o [i \in 1..Len(Rows) |-> Join(cells[i], ",")], "\n")
    /\ ~HasLineBreak(Rows) => ReadCsv(Csv) = ExpectedRows(Rows)
C5_Witness ==
  /\ Wrote /\ Len(Rows) = 2
  /\ "id" \in DOMAIN Rows[1] /\ ~IsAbsent(Rows[1]["id"])
  /\ "r" \in DOMAIN Rows[2] /\ Rows[2]["r"] = Num(-105, 1)
  /\ ReadCsv(Csv)[3][NCols] = <<"-", "1", "0", ".", "5">>

\* The text with each doubled quote made one quote; <<"?">> when a quote
\* stands alone.
RECURSIVE Undouble(_)
Undouble(text) ==
  IF text = <<>> THEN <<>>
  ELSE IF Head(text) # "\"" THEN
         LET rest == Undouble(Tail(text))
         IN IF rest = <<"?">> THEN rest ELSE <<Head(text)>> \o rest
  ELSE IF Len(text) >= 2 /\ text[2] = "\"" THEN
         LET rest == Undouble(Tail(Tail(text)))
         IN IF rest = <<"?">> THEN rest ELSE <<"\"">> \o rest
  ELSE <<"?">>

IsQuoted(cell) ==
  Len(cell) >= 2 /\ cell[1] = "\"" /\ cell[Len(cell)] = "\""

\* C6: a cell is wrapped in double quotes, its own double quotes doubled,
\* exactly when its string form has a comma or a double quote; any other
\* cell is its string form as it is.
C6_Escaping ==
  Wrote =>
    \A i \in 1..Len(Rows) : \A j \in 1..NCols :
      LET form == StringForm(Get(Rows[i], SchemaColumns[j]))
          cell == cells[i][j]
      IN /\ (Includes(form, ",") \/ Includes(form, "\""))
              => /\ IsQuoted(cell)
                 /\ Undouble(SubSeq(cell, 2, Len(cell) - 1)) = form
         /\ ~(Includes(form, ",") \/ Includes(form, "\"")) => cell = form
         /\ form = <<"Smith", ",", " J.">>
              => cell = <<"\"", "Smith", ",", " J.", "\"">>
         /\ form = <<"A ", "\"", "Test", "\"", " Study">>
              => cell = <<"\"", "A ", "\"", "\"", "Test", "\"", "\"", " Study", "\"">>
C6_Witness ==
  /\ Wrote /\ Len(Rows) = 2
  /\ Get(Rows[1], "Title") = Str(<<"A ", "\"", "Test", "\"", " Study">>)
  /\ Get(Rows[2], "Title") = Str(<<"soil", "\n", "carbon">>)
  /\ IsQuoted(cells[1][3]) /\ ~IsQuoted(cells[2][3])

\* ------------------------------------------------------------- App: properties
CoordColumns == {"Longitude", "Latitude"}
\* A raw coordinate text from which parseCoordinates derives no number.
Unparseable(raw) == raw.t = "string" /\ parseCoordinates(raw) = Return(Undefined)
\* A raw coordinate input: absent, a number or a text.
RawCoordinate(raw) == IsAbsent(raw) \/ raw.t \in {"string", "number"}
\* Extraction result i has raw coordinate inputs, one of them an
\* unparseable text.
LostAt(i) ==
  /\ \A f \in CoordColumns : RawCoordinate(Get(extracted[i], f))
  /\ \E f \in CoordColumns : Unparseable(Get(extracted[i], f))

\* The records kept so far, one per extraction result handled without an
\* exception: each result with an unparseable coordinate text has its
\* record, with that coordinate absent and the other schema fields as
\* extracted, and handling it did not enter the error state.
KeptDespiteLoss ==
  /\ Len(papers) <= Len(extracted)
  /\ \A i \in 1..Len(extracted) :
       LostAt(i) =>
         /\ i <= Len(papers)
         /\ status = "ERROR" => i < Len(extracted)
         /\ \A j \in 1..NCols :
              LET f == SchemaColumns[j]
              IN IF f \in CoordColumns /\ Unparseable(Get(extracted[i], f))
                 THEN Get(papers[i], f) = Undefined
                 ELSE f \notin CoordColumns
                        => Get(papers[i], f) = Get(extracted[i], f)

\* The rows of the last exported CSV text, as a reader gives them, against
\* the extraction results it was made of: an empty cell for each
\* unparseable coordinate text, the string form of the extracted value in
\* every column that is no coordinate.
BlankCellsExported ==
  LET rows == ReadCsv(lastDownload.href)
  IN /\ Len(rows) = Len(exportedOf) + 1
     /\ \A i \in 1..Len(exportedOf) :
          (\E f \in CoordColumns : Unparseable(Get(exportedOf[i], f))) =>
            \A j \in 1..NCols :
              LET f == SchemaColumns[j]
              IN IF f \in CoordColumns /\ Unparseable(Get(exportedOf[i], f))
                 THEN rows[i + 1][j] = <<>>
                 ELSE f \notin CoordColumns
                        => rows[i + 1][j] = StringForm(Get(exportedOf[i], f))

OneAtATimeInOrder ==
  /\ pc = "extract" =>
       status = "EXTRACTING" /\ idx = Len(papers) + 1 /\ idx <= Len(rawPapers)
  /\ Len(papers) <= Len(rawPapers)
  /\ \A k \in 1..Len(papers) : Get(papers[k], "id") = rawPapers[k].id

\* A failed extraction call (it resolves with the empty object) leaves a
\* record that has none of the schema's fields.
FailedCallKept ==
  \A i \in 1..Len(extracted) :
    extracted[i] = EmptyRecord =>
      /\ i <= Len(papers)
      /\ \A j \in 1..NCols : Get(papers[i], SchemaColumns[j]) = Undefined

\* C12 (as claimed): in a run of handleSearchAndProcess whose search
\* returns n raw papers the extraction calls are made one at a time in
\* search order, status moves SEARCHING -> EXTRACTING -> COMPLETED, and at
\* COMPLETED the result list holds n records with the raw papers' ids in
\* search order; a failed extraction call leaves a record without extracted
\* fields and never the status ERROR; ERROR is reached only when the search
\* call fails, and then no record has been appended.
C12_SequentialWorkflow ==
  /\ OneAtATimeInOrder
  /\ status = "COMPLETED" =>
       /\ statusLog = <<"SEARCHING", "EXTRACTING", "COMPLETED">>
       /\ Len(papers) = Len(rawPapers)
  /\ FailedCallKept
  /\ status = "ERROR" =>
       /\ statusLog = <<"SEARCHING", "ERROR">>
       /\ extracted = <<>> /\ papers = <<>>

====
